---------------------------- MODULE Spec2Model ----------------------------
(***************************************************************************)
(* Model of sa.py, the generator of vehicles.csv.                          *)
(*                                                                         *)
(* The script opens vehicles.csv for writing inside a `with` statement,    *)
(* writes the header, then for i in range(1, 2001) computes speed,         *)
(* temperature and fuel from i and writes one formatted line.              *)
(*                                                                         *)
(* The text of the file is what was written to it: the concatenation of    *)
(* the strings handed to f.write, in order.  What f.write takes is in the  *)
(* file at once (buffering inside the I/O library is below the level of    *)
(* the model).  A call of f.write either takes its whole argument or       *)
(* raises OSError, having taken some part of it, possibly none.  open and  *)
(* close may raise OSError as well.  An uncaught exception ends the        *)
(* process.                                                                *)
(*                                                                         *)
(* The file is kept as [exists, content, partial]: its text is content     *)
(* followed by partial, where content is what the writes that returned     *)
(* wrote and partial is what a write that raised left behind.              *)
(***************************************************************************)
EXTENDS Integers, Sequences, FiniteSets, TLC

VARIABLES
    pc,           \* position of the script: "start", "header", "loop", "done", "failed"
    f,            \* the file object: "unbound", "open", "closed"
    it,           \* next value the range iterator yields
    i,            \* loop variable (0 = not yet bound)
    speed,        \* (0 = not yet bound)
    temperature,  \* (0 = not yet bound)
    fuel,         \* (0 = not yet bound)
    disk,         \* vehicles.csv: [exists, content, partial]
    ioerror,      \* the OSError raised in this run: "none", "open", "write", "close"
    prior         \* vehicles.csv as it was when this run started:
                  \* [exists, content, completed]; content = its text,
                  \* completed = it is the output of an earlier run that
                  \* ended without an I/O failure

vars == <<pc, f, it, i, speed, temperature, fuel, disk, ioerror, prior>>

(***************************************************************************)
(* Bounds and program constants                                            *)
(***************************************************************************)

\* longest content (in lines) vehicles.csv holds before the first run
MaxPrior == 2

\* range(1, 2001)
RangeStart == 1

RangeStop == 2001

(***************************************************************************)
(* Text.  A text is a string, that is a sequence of characters; the        *)
(* character at position k of s is SubSeq(s, k, k).                        *)
(***************************************************************************)

Digits == <<"0", "1", "2", "3", "4", "5", "6", "7", "8", "9">>

\* str(n) of an int, as the f-string's {n} produces it
RECURSIVE Dec(_)
Dec(n) ==
    IF n < 0 THEN "-" \o Dec(-n)
    ELSE IF n < 10 THEN Digits[n + 1]
    ELSE Dec(n \div 10) \o Digits[(n % 10) + 1]

\* "id,speed,temperature,fuel\n"
HeaderLine == "id,speed,temperature,fuel\n"

\* f"{i},{speed},{temperature},{fuel}\n"
RecordLine(id, s, t, fu) ==
    Dec(id) \o "," \o Dec(s) \o "," \o Dec(t) \o "," \o Dec(fu) \o "\n"

(***************************************************************************)
(* The three derived values                                                *)
(***************************************************************************)

\* a wrong modulus, 40 for 41
SpeedMod40(n) == 80 + (n % 40)

Speed(n) == 80 + (n % 41)

\* a wrong modulus, 30 for 31
TemperatureMod30(n) == 100 + (n % 30)

Temperature(n) == 100 + (n % 31)

\* a wrong modulus, 41 for 40
FuelMod41(n) == 50 - (n % 41)

Fuel(n) == 50 - (n % 40)

(***************************************************************************)
(* The file                                                                *)
(***************************************************************************)

\* the text of a file
TextOf(d) == d.content \o d.partial

\* mode "a" for "w": what the file holds is kept
OpenA(d) == [exists |-> TRUE, content |-> TextOf(d), partial |-> ""]

\* open(..., "w"): the file is created if absent and truncated if present
OpenW(d) == [exists |-> TRUE, content |-> "", partial |-> ""]

\* the file opened anew for every write: what was written before is lost
WriteAnew(d, s) == [d EXCEPT !.content = s, !.partial = ""]

\* f.write(s) that returns: s is appended to the text
Write(d, s) == [d EXCEPT !.content = TextOf(d) \o s, !.partial = ""]

\* what a write of s that raises OSError may have written: a part of s
Torn(s) == {SubSeq(s, 1, n) : n \in 0..(Len(s) - 1)}

\* f.write(s) that raises OSError: part of s is appended to the text
WriteTorn(d, part) == [d EXCEPT !.partial = @ \o part]

\* no `with`: f stays as it is
NoWithExit(h) == h

\* leaving the `with` block, normally or by an exception, closes f
WithExit(h) == "closed"

\* a step of 2
NextOfStep2(n) == n + 2

\* range iterator: the value after n
NextOf(n) == n + 1

\* range(1, 2000)
InRangeShort(n) == n < RangeStop - 1

\* range iterator: whether n is still in range(1, 2001)
InRange(n) == n < RangeStop

\* what vehicles.csv may hold before the first run: anything; the model
\* takes no file, an empty file and files of up to MaxPrior foreign lines
ForeignLine == "x\n"

RECURSIVE ForeignText(_)
ForeignText(n) == IF n = 0 THEN "" ELSE ForeignText(n - 1) \o ForeignLine

PriorFiles ==
    {[exists |-> FALSE, content |-> "", partial |-> ""]} \cup
    {[exists |-> TRUE, content |-> ForeignText(n), partial |-> ""] : n \in 0..MaxPrior}

(***************************************************************************)
(* Initial state: a fresh process, vehicles.csv as some earlier activity   *)
(* left it                                                                 *)
(***************************************************************************)

Init ==
    /\ pc = "start"
    /\ f = "unbound"
    /\ it = RangeStart
    /\ i = 0
    /\ speed = 0
    /\ temperature = 0
    /\ fuel = 0
    /\ ioerror = "none"
    /\ disk \in PriorFiles
    /\ prior = [exists |-> disk.exists, content |-> TextOf(disk), completed |-> FALSE]

(***************************************************************************)
(* Steps of the script                                                     *)
(***************************************************************************)

\* line 1: with open("vehicles.csv", "w") as f
Open ==
    /\ pc = "start"
    /\ disk' = OpenW(disk)
    /\ f' = "open"
    /\ pc' = "header"
    /\ UNCHANGED <<it, i, speed, temperature, fuel, ioerror, prior>>

\* line 1: open raises OSError; f is never bound, the file is left as it was
OpenFail ==
    /\ pc = "start"
    /\ ioerror' = "open"
    /\ pc' = "failed"
    /\ UNCHANGED <<f, it, i, speed, temperature, fuel, disk, prior>>

\* line 2: f.write("id,speed,temperature,fuel\n")
WriteHeader ==
    /\ pc = "header"
    /\ disk' = Write(disk, HeaderLine)
    /\ pc' = "loop"
    /\ UNCHANGED <<f, it, i, speed, temperature, fuel, ioerror, prior>>

\* line 2: the write raises OSError, some part of the header written; the
\* with block closes f and the exception leaves the script
WriteHeaderFail ==
    /\ pc = "header"
    /\ \E part \in Torn(HeaderLine) : disk' = WriteTorn(disk, part)
    /\ ioerror' = "write"
    /\ f' = WithExit(f)
    /\ pc' = "failed"
    /\ UNCHANGED <<it, i, speed, temperature, fuel, prior>>

\* lines 3-7: one iteration of the loop
WriteRecord ==
    /\ pc = "loop"
    /\ InRange(it)
    /\ i' = it
    /\ it' = NextOf(it)
    /\ speed' = Speed(i')
    /\ temperature' = Temperature(i')
    /\ fuel' = Fuel(i')
    /\ disk' = Write(disk, RecordLine(i', speed', temperature', fuel'))
    /\ UNCHANGED <<pc, f, ioerror, prior>>

\* the OSError of the write caught and passed over inside the loop
WriteRecordFailSwallowed ==
    /\ pc = "loop"
    /\ InRange(it)
    /\ i' = it
    /\ it' = NextOf(it)
    /\ speed' = Speed(i')
    /\ temperature' = Temperature(i')
    /\ fuel' = Fuel(i')
    /\ \E part \in Torn(RecordLine(i', speed', temperature', fuel')) :
           disk' = WriteTorn(disk, part)
    /\ ioerror' = "write"
    /\ UNCHANGED <<pc, f, prior>>

\* lines 3-7: one iteration whose write raises OSError
WriteRecordFail ==
    /\ pc = "loop"
    /\ InRange(it)
    /\ i' = it
    /\ it' = NextOf(it)
    /\ speed' = Speed(i')
    /\ temperature' = Temperature(i')
    /\ fuel' = Fuel(i')
    /\ \E part \in Torn(RecordLine(i', speed', temperature', fuel')) :
           disk' = WriteTorn(disk, part)
    /\ ioerror' = "write"
    /\ f' = WithExit(f)
    /\ pc' = "failed"
    /\ UNCHANGED prior

\* line 3: the range is exhausted, the with block ends and closes f
Close ==
    /\ pc = "loop"
    /\ ~InRange(it)
    /\ f' = WithExit(f)
    /\ pc' = "done"
    /\ UNCHANGED <<it, i, speed, temperature, fuel, disk, ioerror, prior>>

\* line 3: as Close, but close raises OSError (f is closed all the same)
CloseFail ==
    /\ pc = "loop"
    /\ ~InRange(it)
    /\ f' = WithExit(f)
    /\ ioerror' = "close"
    /\ pc' = "failed"
    /\ UNCHANGED <<it, i, speed, temperature, fuel, disk, prior>>

\* the script is run again after a run that ended without failure:
\* a fresh process, vehicles.csv as that run left it
Rerun ==
    /\ pc = "done"
    /\ pc' = "start"
    /\ f' = "unbound"
    /\ it' = RangeStart
    /\ i' = 0
    /\ speed' = 0
    /\ temperature' = 0
    /\ fuel' = 0
    /\ ioerror' = "none"
    /\ prior' = [exists |-> disk.exists, content |-> TextOf(disk), completed |-> TRUE]
    /\ UNCHANGED disk

Next ==
    \/ Open
    \/ OpenFail
    \/ WriteHeader
    \/ WriteHeaderFail
    \/ WriteRecord
    \/ WriteRecordFail
    \/ Close
    \/ CloseFail
    \/ Rerun

Spec == Init /\ [][Next]_vars

(***************************************************************************)
(* Reading the file back: characters, lines, fields, decimal numbers       *)
(***************************************************************************)

\* what the writes that returned wrote; the text of the file is this and,
\* after a write that raised, the part that write left
Content == disk.content

Text == TextOf(disk)

Char(s, k) == SubSeq(s, k, k)

MaxOf(S) == CHOOSE m \in S : \A x \in S : x <= m

\* the positions of the newlines of s
Newlines(s) == {k \in 1..Len(s) : Char(s, k) = "\n"}

\* the position of the last newline of s at or before position p, 0 if
\* there is none (looked for near p first; lines are short)
LastNewline(s, p) ==
    LET near == {k \in (p - 31)..p : k >= 1 /\ Char(s, k) = "\n"}
        far == {k \in 1..(p - 32) : Char(s, k) = "\n"}
    IN  IF near # {} THEN MaxOf(near)
        ELSE IF far # {} THEN MaxOf(far)
        ELSE 0

\* the line of s that ends with the newline at position e, newline included
LineEndingAt(s, e) == SubSeq(s, LastNewline(s, e - 1) + 1, e)

\* the end of the last complete line of the file, 0 if it has none
LastEnd == LastNewline(Content, Len(Content))

\* the last complete line of the file and the one before it
LastLine == LineEndingAt(Content, LastEnd)

LineBeforeLast == LineEndingAt(Content, LastEnd - Len(LastLine))

\* the file was opened by this run and holds a complete line after the first
HasDataLine == f # "unbound" /\ LastEnd > 0 /\ LastEnd - Len(LastLine) > 0

IsDigit(c) == \E d \in 1..10 : Digits[d] = c

DigitValue(c) == (CHOOSE d \in 1..10 : Digits[d] = c) - 1

\* a decimal numeral: digits only, at least one, no leading zero
IsNumeral(s) ==
    /\ Len(s) >= 1
    /\ \A k \in 1..Len(s) : IsDigit(Char(s, k))
    /\ Len(s) > 1 => Char(s, 1) # "0"

RECURSIVE NumeralValue(_)
NumeralValue(s) ==
    IF Len(s) = 0 THEN 0
    ELSE 10 * NumeralValue(SubSeq(s, 1, Len(s) - 1)) + DigitValue(Char(s, Len(s)))

CommasOf(s) == {k \in 1..Len(s) : Char(s, k) = ","}

\* the n-th comma-separated field of a line, its newline left out (n in
\* 1..4, of a line with three commas)
Field(s, n) ==
    LET cs == CommasOf(s)
        before == {c \in cs : Cardinality({b \in cs : b < c}) = n - 2}
        at == {c \in cs : Cardinality({b \in cs : b < c}) = n - 1}
        from == IF n = 1 THEN 1 ELSE (CHOOSE c \in before : TRUE) + 1
        to == IF n = 4 THEN Len(s) - 1 ELSE (CHOOSE c \in at : TRUE) - 1
    IN  SubSeq(s, from, to)

\* a data line: four numerals, three commas, a newline at the end, and
\* nothing else
IsRecordLine(s) ==
    /\ Len(s) >= 1
    /\ Newlines(s) = {Len(s)}
    /\ Cardinality(CommasOf(s)) = 3
    /\ \A n \in 1..4 : IsNumeral(Field(s, n))

IdOf(s) == NumeralValue(Field(s, 1))

SpeedOf(s) == NumeralValue(Field(s, 2))

TemperatureOf(s) == NumeralValue(Field(s, 3))

FuelOf(s) == NumeralValue(Field(s, 4))

\* the header line as the specification spells it
SpecHeader == "id,speed,temperature,fuel\n"

\* the data line of an id as the specification's formulas give it
SpecLine(id) ==
    Dec(id) \o "," \o Dec(80 + (id % 41)) \o "," \o Dec(100 + (id % 31))
        \o "," \o Dec(50 - (id % 40)) \o "\n"

RECURSIVE SpecLines(_, _)
SpecLines(lo, hi) ==
    IF lo > hi THEN ""
    ELSE IF lo = hi THEN SpecLine(lo)
    ELSE SpecLines(lo, (lo + hi) \div 2) \o SpecLines(((lo + hi) \div 2) + 1, hi)

\* the complete output: the header, then the lines of the ids 1..2000 in order
SpecOutput == SpecHeader \o SpecLines(1, 2000)

IsPrefixOf(s, t) == Len(s) <= Len(t) /\ s = SubSeq(t, 1, Len(s))

\* the text of file d is a prefix of t: d.content is, and d.partial is what
\* follows it in t
TextIsPrefixOf(d, t) ==
    /\ IsPrefixOf(d.content, t)
    /\ Len(d.content) + Len(d.partial) <= Len(t)
    /\ d.partial = SubSeq(t, Len(d.content) + 1, Len(d.content) + Len(d.partial))

\* the text of file e is the text of file d with something appended
TextExtends(d, e) ==
    \/ d.partial = "" /\ IsPrefixOf(d.content, e.content)
    \/ d.content = e.content /\ IsPrefixOf(d.partial, e.partial)

\* the run is over
Ended == pc \in {"done", "failed"}

(***************************************************************************)
(* Claims                                                                  *)
(***************************************************************************)

\* a data line that carries, for the id it names, the three values of the
\* formulas, and is the line the specification gives for ids 1 and 41
CarriesFormulas(s) ==
    /\ IsRecordLine(s)
    /\ IdOf(s) \in 1..2000
    /\ SpeedOf(s) = 80 + (IdOf(s) % 41)
    /\ TemperatureOf(s) = 100 + (IdOf(s) % 31)
    /\ FuelOf(s) = 50 - (IdOf(s) % 40)
    /\ IdOf(s) = 1 => s = "1,81,101,49\n"
    /\ IdOf(s) = 41 => s = "41,80,110,49\n"

\* C1: every data line written is "{id},{speed},{temperature},{fuel}" with
\* speed = 80 + id mod 41, temperature = 100 + id mod 31, fuel = 50 - id mod 40
\* for the id it names (the line just written in every state; every line
\* after the header, and one for every id of 1..2000, when the run is done);
\* the line of id 1 is "1,81,101,49" and the line of id 41 is "41,80,110,49"
C1_LinesCarryFormulas ==
    /\ HasDataLine => CarriesFormulas(LastLine)
    /\ pc = "done" =>
        LET ends == Newlines(Text)
            ids == {IdOf(LineEndingAt(Text, e)) : e \in ends \ {Len(SpecHeader)}}
        IN  /\ \A e \in ends \ {Len(SpecHeader)} :
                  CarriesFormulas(LineEndingAt(Text, e))
            /\ ids = 1..2000

C1_Witness ==
    /\ pc = "loop"
    /\ i = 41
    /\ speed = 80
    /\ LastLine = "41,80,110,49\n"
    /\ SubSeq(Text, 1, 38) = "id,speed,temperature,fuel\n1,81,101,49\n"

\* C2 as the specification states it: the record of id 2000 has speed 88,
\* temperature 115 and fuel 50, and the last line of the output is
\* "2000,88,115,50"
C2_AsStated ==
    /\ i = 2000 => (speed = 88 /\ temperature = 115 /\ fuel = 50)
    /\ pc = "done" => LastLine = "2000,88,115,50\n"

\* C2, amended: the record of id 2000 has speed 112, temperature 116 and
\* fuel 50, and the last line of the output of a completed run is
\* "2000,112,116,50"
C2_LastRecord ==
    /\ i = 2000 => (speed = 112 /\ temperature = 116 /\ fuel = 50)
    /\ (HasDataLine /\ IdOf(LastLine) = 2000) => LastLine = "2000,112,116,50\n"
    /\ pc = "done" =>
        /\ disk.partial = "" /\ LastEnd = Len(Content)
        /\ LastLine = "2000,112,116,50\n"

C2_Witness ==
    /\ pc = "done"
    /\ i = 2000
    /\ LastLine = "2000,112,116,50\n"

\* C3: after a run without I/O failure the file has exactly 2001 lines, each
\* ended by its newline; line 1 is the header "id,speed,temperature,fuel",
\* which appears nowhere else, and the 2000 lines after it are data lines
C3_CompleteFile ==
    pc = "done" =>
        LET ends == Newlines(Text)
        IN  /\ disk.exists
            /\ Cardinality(ends) = 2001
            /\ Len(Text) \in ends
            /\ LineEndingAt(Text, Len(SpecHeader)) = SpecHeader
            /\ SubSeq(Text, 1, Len(SpecHeader)) = SpecHeader
            /\ \A e \in ends \ {Len(SpecHeader)} :
                  /\ LineEndingAt(Text, e) # SpecHeader
                  /\ IsRecordLine(LineEndingAt(Text, e))

C3_Witness ==
    /\ pc = "done"
    /\ ioerror = "none"
    /\ f = "closed"
    /\ Cardinality(Newlines(Text)) = 2001

\* C4: the data lines come in the order of their ids, 1, 2, ..., 2000, with
\* no gap, duplicate or reordering: the first data line carries id 1 and
\* follows the header, every other one carries the id of the line before it
\* plus 1 (the line just written in every state, every line when the run is
\* done), and the last one carries 2000
C4_IdsInOrder ==
    /\ HasDataLine =>
        /\ IdOf(LastLine) = i \/ (pc = "failed" /\ IdOf(LastLine) = i - 1)
        /\ IF LineBeforeLast = SpecHeader /\ LastEnd - Len(LastLine) = Len(SpecHeader)
           THEN IdOf(LastLine) = 1
           ELSE IdOf(LastLine) = IdOf(LineBeforeLast) + 1
    /\ pc = "done" =>
        /\ disk.partial = ""
        /\ IdOf(LastLine) = 2000
        /\ \A e \in Newlines(Text) \ {Len(SpecHeader)} :
              LET line == LineEndingAt(Text, e)
                  prev == LineEndingAt(Text, e - Len(line))
              IN  IF e - Len(line) = Len(SpecHeader)
                  THEN IdOf(line) = 1
                  ELSE IdOf(line) = IdOf(prev) + 1

C4_Witness ==
    /\ pc = "loop"
    /\ i = 3
    /\ Text = "id,speed,temperature,fuel\n1,81,101,49\n2,82,102,48\n3,83,103,47\n"

\* C5: every record written has 80 <= speed <= 120, 100 <= temperature <= 130
\* and 11 <= fuel <= 50, as computed and as written in its line
C5_Ranges ==
    /\ i \in 1..2000 =>
        /\ speed \in 80..120
        /\ temperature \in 100..130
        /\ fuel \in 11..50
    /\ HasDataLine =>
        /\ IdOf(LastLine) \in 1..2000
        /\ SpeedOf(LastLine) \in 80..120
        /\ TemperatureOf(LastLine) \in 100..130
        /\ FuelOf(LastLine) \in 11..50

\* the record of id 39 reaches the least fuel
C5_Witness ==
    /\ pc = "loop"
    /\ i = 39
    /\ fuel = 11
    /\ IdOf(LastLine) = 39
    /\ FuelOf(LastLine) = 11

\* C6: a run that completes after an earlier completed run leaves the file
\* exactly as that earlier run left it
C6_SameOutputAgain ==
    (pc = "done" /\ prior.completed) =>
        /\ disk.exists = prior.exists
        /\ Text = prior.content

C6_Witness ==
    /\ pc = "done"
    /\ prior.completed
    /\ Len(Text) > 0

\* C7: no run ends with the file object still open: once the file was opened
\* it is closed when the run is done and when a write or the close failed
C7_ClosedAtEnd ==
    /\ Ended => f # "open"
    /\ (Ended /\ ioerror # "open") => f = "closed"

C7_Witness ==
    /\ pc = "failed"
    /\ ioerror = "write"
    /\ f = "closed"
    /\ i = 2

\* C8: an I/O failure ends the run at once: the step that fails leaves the
\* script failed, the error stays with the run, and nothing is written,
\* retried or continued afterwards
C8_FailureAborts ==
    /\ [](ioerror # "none" <=> pc = "failed")
    /\ [][(ioerror = "none" /\ ioerror' # "none") => pc' = "failed"]_vars
    /\ [][ioerror # "none" => UNCHANGED <<disk, ioerror, pc, it, i>>]_vars

C8_Witness ==
    /\ pc = "failed"
    /\ ioerror = "write"
    /\ i = 5
    /\ LastLine = "4,84,104,46\n"

\* C9: the file exists from the open on, and after a run without I/O failure
\* it holds the complete output and nothing else, whatever it held before
C9_CreatedOrOverwritten ==
    /\ f # "unbound" => disk.exists
    /\ pc = "done" => Text = SpecOutput

\* the file held foreign lines before the run
C9_Witness ==
    /\ pc = "done"
    /\ prior.exists
    /\ ~prior.completed
    /\ Len(prior.content) >= 1
    /\ Text = SpecOutput

\* C10: from the open on, also after a failure, the file holds a prefix of
\* the complete output (so none of what it held before, and the line of id k
\* only after the header and the lines of the ids before k), and a step of
\* the run only appends to the file or leaves it alone
C10_PrefixOfOutput ==
    /\ [](f # "unbound" => (disk.exists /\ TextIsPrefixOf(disk, SpecOutput)))
    /\ [][f # "unbound" => (disk'.exists /\ TextExtends(disk, disk'))]_vars

\* the header write failed after "id,": what the file held before is gone
C10_Witness ==
    /\ pc = "failed"
    /\ ioerror = "write"
    /\ i = 0
    /\ prior.exists
    /\ prior.content = "x\nx\n"
    /\ disk.content = ""
    /\ disk.partial = "id,"

=============================================================================
